---- MODULE Spec2Model ----
(***************************************************************************)
(* hepcrawl/tohep.py: conversion of a ParsedItem into a HEP record.        *)
(*                                                                         *)
(* Python values are modelled as follows.  A str is the tuple of its       *)
(* characters ('' is <<>>), so that strip(), lower(), upper(), int() and   *)
(* os.path.basename() are computed character by character.  A list is a   *)
(* tuple.  A dict is a function whose DOMAIN is the set of keys present.   *)
(* The LiteratureBuilder of inspire_schemas is an external library: the    *)
(* model keeps the sequence of calls the code makes on it.                 *)
(***************************************************************************)
EXTENDS Integers, Sequences, FiniteSets, TLC

VARIABLES
    record,           \* item.record, mutated in place
    record_format,    \* item.record_format
    record_files,     \* item.record_files
    source,           \* the source argument of item_to_hep
    environ,          \* os.environ
    pc,               \* position in item_to_hep / hepcrawl_to_hep
    error,            \* the exception that ended the call, "none" if none
    result,           \* the value returned to the caller
    calls,            \* calls made on the builder of hepcrawl_to_hep, in order
    idx,              \* 1-based position of the collections loop
    added_doc_type,   \* local flag of hepcrawl_to_hep
    validated,        \* outcome of builder.validate_record()
    normalized,       \* completed runs of _normalize_hepcrawl_record on the record
    record0           \* the record the item was created with (history)

vars == <<record, record_format, record_files, source, environ, pc, error,
          result, calls, idx, added_doc_type, validated, normalized, record0>>

(***************************************************************************)
(* Bounds of the explored inputs.                                          *)
(***************************************************************************)
MaxKeys == 2          \* keys of a harvest record
MaxCollections == 2   \* entries of record['collections']
MaxFft == 2           \* entries of record['_fft']
MaxFiles == 2         \* entries of item.record_files
MaxNormalize == 2     \* runs of the normalizer on one record

(***************************************************************************)
(* dict                                                                    *)
(***************************************************************************)
Has(d, k) == k \in DOMAIN d

Get(d, k, default) == IF k \in DOMAIN d THEN d[k] ELSE default

Put(d, k, v) == [x \in DOMAIN d \cup {k} |-> IF x = k THEN v ELSE d[x]]

Pop(d, k) == [x \in DOMAIN d \ {k} |-> d[x]]

\* d.get(k) used as a condition: strings and lists are true when non-empty
Truthy(d, k) == k \in DOMAIN d /\ d[k] # <<>>

None == [none |-> TRUE]

(***************************************************************************)
(* str                                                                     *)
(***************************************************************************)
IsSpace(c) == c \in {" ", "\t", "\n", "\r"}

RECURSIVE lstrip(_)
lstrip(s) == IF s # <<>> /\ IsSpace(Head(s)) THEN lstrip(Tail(s)) ELSE s

RECURSIVE rstrip(_)
rstrip(s) ==
    IF s # <<>> /\ IsSpace(s[Len(s)]) THEN rstrip(SubSeq(s, 1, Len(s) - 1)) ELSE s

strip(s) == rstrip(lstrip(s))

Uppers == <<"A","B","C","D","E","F","G","H","I","J","K","L","M","N","O","P","Q","R","S","T","U","V","W","X","Y","Z">>

Lowers == <<"a","b","c","d","e","f","g","h","i","j","k","l","m","n","o","p","q","r","s","t","u","v","w","x","y","z">>

LowerChar(c) ==
    IF \E i \in 1..Len(Uppers) : Uppers[i] = c
    THEN Lowers[CHOOSE i \in 1..Len(Uppers) : Uppers[i] = c]
    ELSE c

UpperChar(c) ==
    IF \E i \in 1..Len(Lowers) : Lowers[i] = c
    THEN Uppers[CHOOSE i \in 1..Len(Lowers) : Lowers[i] = c]
    ELSE c

lower(s) == [i \in 1..Len(s) |-> LowerChar(s[i])]

upper(s) == [i \in 1..Len(s) |-> UpperChar(s[i])]

Digits == <<"0","1","2","3","4","5","6","7","8","9">>

IsDigit(c) == \E i \in 1..Len(Digits) : Digits[i] = c

DigitValue(c) == (CHOOSE i \in 1..Len(Digits) : Digits[i] = c) - 1

RECURSIVE DigitsValue(_, _)
DigitsValue(s, acc) ==
    IF s = <<>> THEN acc ELSE DigitsValue(Tail(s), acc * 10 + DigitValue(Head(s)))

\* int(s) of a str: surrounding whitespace and one sign are accepted, then
\* at least one digit and digits only; anything else is a ValueError
int(s) ==
    LET t == strip(s)
        signed == t # <<>> /\ t[1] \in {"+", "-"}
        body == IF signed THEN Tail(t) ELSE t
    IN  IF body # <<>> /\ \A i \in 1..Len(body) : IsDigit(body[i])
        THEN [ok |-> TRUE,
              value |-> IF signed /\ t[1] = "-"
                        THEN 0 - DigitsValue(body, 0)
                        ELSE DigitsValue(body, 0)]
        ELSE [ok |-> FALSE, value |-> 0]

\* os.path.basename(p): what follows the last "/"
basename(p) ==
    LET slashes == {i \in 1..Len(p) : p[i] = "/"}
        last == IF slashes = {} THEN 0
                ELSE CHOOSE i \in slashes : \A j \in slashes : j <= i
    IN  SubSeq(p, last + 1, Len(p))

(***************************************************************************)
(* _get_updated_fft_fields                                                 *)
(***************************************************************************)
\* the dict comprehension: for a repeated name the last file wins
record_files_index(files) ==
    [n \in {files[i].name : i \in 1..Len(files)} |->
        files[CHOOSE i \in 1..Len(files) :
                /\ files[i].name = n
                /\ \A j \in 1..Len(files) : files[j].name = n => j <= i].path]

RECURSIVE UpdatedFftKeepingAll(_, _)
UpdatedFftKeepingAll(current_fft_fields, files) ==
    IF current_fft_fields = <<>> THEN <<>>
    ELSE LET fft_field == Head(current_fft_fields)
             file_name == basename(fft_field["path"])
             index == record_files_index(files)
         IN  (IF file_name \in DOMAIN index
              THEN <<Put(fft_field, "path", index[file_name])>>
              ELSE <<fft_field>>)
             \o UpdatedFftKeepingAll(Tail(current_fft_fields), files)

RECURSIVE _get_updated_fft_fields(_, _)
_get_updated_fft_fields(current_fft_fields, files) ==
    IF current_fft_fields = <<>> THEN <<>>
    ELSE LET fft_field == Head(current_fft_fields)
             file_name == basename(fft_field["path"])
             index == record_files_index(files)
         IN  (IF file_name \in DOMAIN index
              THEN <<Put(fft_field, "path", index[file_name])>>
              ELSE <<>>)
             \o _get_updated_fft_fields(Tail(current_fft_fields), files)

\* hep_to_hep: the record it returns, or the KeyError of hep_record['_fft']
hep_to_hep(hep_record, files) ==
    IF files # <<>>
    THEN IF Has(hep_record, "_fft")
         THEN [error |-> "none",
               record |-> Put(hep_record, "_fft",
                              _get_updated_fft_fields(hep_record["_fft"], files))]
         ELSE [error |-> "KeyError", record |-> hep_record]
    ELSE [error |-> "none", record |-> hep_record]

(***************************************************************************)
(* _normalize_hepcrawl_record                                              *)
(***************************************************************************)
HasPublicationInfoWithoutDoctype(item) ==
    \/ Truthy(item, "pubinfo_freetext")
    \/ Truthy(item, "journal_volume")
    \/ Truthy(item, "journal_title")
    \/ Truthy(item, "journal_year")
    \/ Truthy(item, "journal_issue")
    \/ Truthy(item, "journal_fpage")
    \/ Truthy(item, "journal_lpage")
    \/ Truthy(item, "journal_artid")

_has_publication_info(item) ==
    \/ Truthy(item, "pubinfo_freetext")
    \/ Truthy(item, "journal_volume")
    \/ Truthy(item, "journal_title")
    \/ Truthy(item, "journal_year")
    \/ Truthy(item, "journal_issue")
    \/ Truthy(item, "journal_fpage")
    \/ Truthy(item, "journal_lpage")
    \/ Truthy(item, "journal_artid")
    \/ Truthy(item, "journal_doctype")

\* item.pop(key, None) for every key
_remove_fields(item, keys) == [x \in DOMAIN item \ keys |-> item[x]]

\* lines 85-86: item['dois'] is read before related_article_doi is popped
MergeRelatedDois(item) ==
    IF Has(item, "related_article_doi")
    THEN IF Has(item, "dois")
         THEN [error |-> "none",
               item |-> Put(Pop(item, "related_article_doi"), "dois",
                            item["dois"] \o item["related_article_doi"])]
         ELSE [error |-> "KeyError", item |-> item]
    ELSE [error |-> "none", item |-> item]

\* lines 88-108: the four wrappers that are always produced
WrapAlwaysProduced(item, src) ==
    LET i1 == Put(_remove_fields(item, {"title", "subtitle"}), "titles",
                  <<[title |-> Get(item, "title", <<>>),
                     subtitle |-> Get(item, "subtitle", <<>>),
                     source |-> src]>>)
        i2 == Put(Pop(i1, "abstract"), "abstracts",
                  <<[value |-> Get(i1, "abstract", <<>>), source |-> src]>>)
        i3 == Put(Pop(i2, "date_published"), "imprints",
                  <<[date |-> Get(i2, "date_published", <<>>)]>>)
    IN  Put(_remove_fields(i3, {"copyright_holder", "copyright_year",
                                "copyright_statement", "copyright_material"}),
            "copyright",
            <<[holder |-> Get(i3, "copyright_holder", <<>>),
               year |-> Get(i3, "copyright_year", <<>>),
               statement |-> Get(i3, "copyright_statement", <<>>),
               material |-> Get(i3, "copyright_material", <<>>)]>>)

\* lines 111-121: the entry and the keys its construction pops
PublicationInfoEntry(item) ==
    [journal_title |-> Get(item, "journal_title", <<>>),
     journal_volume |-> Get(item, "journal_volume", <<>>),
     journal_issue |-> Get(item, "journal_issue", <<>>),
     artid |-> Get(item, "journal_artid", <<>>),
     page_start |-> Get(item, "journal_fpage", <<>>),
     page_end |-> Get(item, "journal_lpage", <<>>),
     note |-> Get(item, "journal_doctype", <<>>),
     pubinfo_freetext |-> Get(item, "pubinfo_freetext", <<>>),
     pubinfo_material |-> Get(item, "pubinfo_material", <<>>)]

PublicationInfoPopped ==
    {"journal_title", "journal_volume", "journal_issue", "journal_artid",
     "journal_fpage", "journal_lpage", "journal_doctype", "pubinfo_freetext",
     "pubinfo_material"}

RemovedFields ==
    {"journal_title", "journal_volume", "journal_year", "journal_issue",
     "journal_fpage", "journal_lpage", "journal_doctype", "journal_artid",
     "pubinfo_freetext", "pubinfo_material"}

\* lines 110-125: int() runs after journal_year was popped and after
\* publication_info was stored, so a ValueError leaves both done
BuildPublicationInfo(item) ==
    IF _has_publication_info(item)
    THEN LET i1 == Put(_remove_fields(item, PublicationInfoPopped),
                       "publication_info", <<PublicationInfoEntry(item)>>)
         IN  IF Truthy(i1, "journal_year")
             THEN LET year == int(i1["journal_year"])
                      i2 == Pop(i1, "journal_year")
                  IN  IF year.ok
                      THEN [error |-> "none",
                            item |-> Put(i2, "publication_info",
                                         <<Put(i1["publication_info"][1],
                                               "year", year.value)>>)]
                      ELSE [error |-> "ValueError", item |-> i2]
             ELSE [error |-> "none", item |-> i1]
    ELSE [error |-> "none", item |-> item]

\* the whole function: the item as it leaves it, and the exception if any
_normalize_hepcrawl_record(item, src) ==
    LET merged == MergeRelatedDois(item)
    IN  IF merged.error # "none" THEN merged
        ELSE LET built == BuildPublicationInfo(WrapAlwaysProduced(merged.item, src))
             IN  IF built.error # "none" THEN built
                 ELSE [error |-> "none",
                       item |-> _remove_fields(built.item, RemovedFields)]

(***************************************************************************)
(* hepcrawl_to_hep: the calls it makes on its LiteratureBuilder            *)
(***************************************************************************)
Call(op, args) == [op |-> op, args |-> args]

\* d.get(k): None when the key is absent
GetOrNone(d, k) == Get(d, k, None)

_filter_affiliation(affiliations) ==
    LET kept == SelectSeq(affiliations, LAMBDA a : Truthy(a, "value"))
    IN  [i \in 1..Len(kept) |-> kept[i]["value"]]

\* crawler_record.get(key, []), the list a for loop runs over
Elements(crawler_record, key) == Get(crawler_record, key, <<>>)

\* lines 310-315: int(crawler_record.get('page_nr', [])[0]), errors passed over
NumberOfPagesCalls(crawler_record) ==
    LET page_nr == Get(crawler_record, "page_nr", <<>>)
    IN  IF page_nr # <<>> /\ int(page_nr[1]).ok
        THEN <<Call("add_number_of_pages", int(page_nr[1]).value)>>
        ELSE <<>>

\* lines 238-315, in the order of the code: one call per list element
FieldCalls(crawler_record) ==
    LET authors == Elements(crawler_record, "authors")
        titles == Elements(crawler_record, "titles")
        abstracts == Elements(crawler_record, "abstracts")
        arxiv_eprints == Elements(crawler_record, "arxiv_eprints")
        dois == Elements(crawler_record, "dois")
        public_notes == Elements(crawler_record, "public_notes")
        licenses == Elements(crawler_record, "license")
        collaborations == Elements(crawler_record, "collaborations")
        imprints == Elements(crawler_record, "imprints")
        copyrights == Elements(crawler_record, "copyright")
        acquisition_source == crawler_record["acquisition_source"]
    IN  [i \in 1..Len(authors) |->
            Call("add_author",
                 [full_name |-> authors[i]["full_name"],
                  affiliations |-> _filter_affiliation(authors[i]["affiliations"])])]
        \o [i \in 1..Len(titles) |->
            Call("add_title", [title |-> GetOrNone(titles[i], "title"),
                               source |-> GetOrNone(titles[i], "source")])]
        \o [i \in 1..Len(abstracts) |->
            Call("add_abstract", [abstract |-> GetOrNone(abstracts[i], "value"),
                                  source |-> GetOrNone(abstracts[i], "source")])]
        \o [i \in 1..Len(arxiv_eprints) |->
            Call("add_arxiv_eprint",
                 [arxiv_id |-> GetOrNone(arxiv_eprints[i], "value"),
                  arxiv_categories |-> GetOrNone(arxiv_eprints[i], "categories")])]
        \o [i \in 1..Len(dois) |->
            Call("add_doi", [doi |-> GetOrNone(dois[i], "value"),
                             material |-> GetOrNone(dois[i], "material")])]
        \o [i \in 1..Len(public_notes) |->
            Call("add_public_note",
                 [public_note |-> GetOrNone(public_notes[i], "value"),
                  source |-> GetOrNone(public_notes[i], "source")])]
        \o [i \in 1..Len(licenses) |->
            Call("add_license", [url |-> GetOrNone(licenses[i], "url"),
                                 license |-> GetOrNone(licenses[i], "license"),
                                 material |-> GetOrNone(licenses[i], "material")])]
        \o [i \in 1..Len(collaborations) |->
            Call("add_collaboration",
                 [collaboration |-> GetOrNone(collaborations[i], "value")])]
        \o [i \in 1..Len(imprints) |->
            Call("add_imprint_date",
                 [imprint_date |-> GetOrNone(imprints[i], "date")])]
        \o [i \in 1..Len(copyrights) |->
            Call("add_copyright",
                 [holder |-> GetOrNone(copyrights[i], "holder"),
                  material |-> GetOrNone(copyrights[i], "material"),
                  statement |-> GetOrNone(copyrights[i], "statement")])]
        \o <<Call("add_preprint_date",
                  [preprint_date |-> GetOrNone(crawler_record, "preprint_date")])>>
        \o <<Call("add_acquisition_source",
                  [method |-> acquisition_source["method"],
                   date |-> acquisition_source["datetime"],
                   source |-> acquisition_source["source"],
                   submission_number |-> acquisition_source["submission_number"]])>>
        \o NumberOfPagesCalls(crawler_record)

publication_types == {<<"i","n","t","r","o","d","u","c","t","o","r","y">>, <<"l","e","c","t","u","r","e","s">>, <<"r","e","v","i","e","w">>}

special_collections ==
    {<<"c","d","f","-","i","n","t","e","r","n","a","l","-","n","o","t","e">>, <<"c","d","f","-","n","o","t","e">>, <<"c","d","s">>, <<"d","0","-","i","n","t","e","r","n","a","l","-","n","o","t","e">>,
     <<"d","0","-","p","r","e","l","i","m","i","n","a","r","y","-","n","o","t","e">>, <<"h","1","-","i","n","t","e","r","n","a","l","-","n","o","t","e">>, <<"h","1","-","p","r","e","l","i","m","i","n","a","r","y","-","n","o","t","e">>,
     <<"h","a","l","h","i","d","d","e","n">>, <<"h","e","p","h","i","d","d","e","n">>, <<"h","e","r","m","e","s","-","i","n","t","e","r","n","a","l","-","n","o","t","e">>,
     <<"l","a","r","s","o","f","t","-","i","n","t","e","r","n","a","l","-","n","o","t","e">>, <<"l","a","r","s","o","f","t","-","n","o","t","e">>, <<"z","e","u","s","-","i","n","t","e","r","n","a","l","-","n","o","t","e">>,
     <<"z","e","u","s","-","p","r","e","l","i","m","i","n","a","r","y","-","n","o","t","e">>}

document_types == {<<"b","o","o","k">>, <<"n","o","t","e">>, <<"r","e","p","o","r","t">>, <<"p","r","o","c","e","e","d","i","n","g","s">>, <<"t","h","e","s","i","s">>}

\* line 351
NormalizedTag(collection) == lower(strip(collection["primary"]))

\* lines 353-377: the builder call of one loop iteration (none if ignored)
CollectionCalls(c) ==
    IF c = <<"a","r","x","i","v">> THEN <<>>
    ELSE IF c = <<"c","i","t","e","a","b","l","e">> THEN <<Call("set_citeable", TRUE)>>
    ELSE IF c = <<"c","o","r","e">> THEN <<Call("set_core", TRUE)>>
    ELSE IF c = <<"n","o","n","c","o","r","e">> THEN <<Call("set_core", FALSE)>>
    ELSE IF c = <<"p","u","b","l","i","s","h","e","d">> THEN <<Call("set_refereed", TRUE)>>
    ELSE IF c = <<"w","i","t","h","d","r","a","w","n">> THEN <<Call("set_withdrawn", TRUE)>>
    ELSE IF c \in publication_types THEN <<Call("add_publication_type", c)>>
    ELSE IF c \in special_collections
         THEN <<Call("add_special_collection", upper(c))>>
    ELSE IF c = <<"b","o","o","k","c","h","a","p","t","e","r">>
         THEN <<Call("add_document_type", <<"b","o","o","k"," ","c","h","a","p","t","e","r">>)>>
    ELSE IF c = <<"c","o","n","f","e","r","e","n","c","e","p","a","p","e","r">>
         THEN <<Call("add_document_type", <<"c","o","n","f","e","r","e","n","c","e"," ","p","a","p","e","r">>)>>
    ELSE IF c \in document_types THEN <<Call("add_document_type", c)>>
    ELSE <<>>

\* lines 369-377: the branches that set added_doc_type
SetsAddedDocType(c) ==
    c = <<"b","o","o","k","c","h","a","p","t","e","r">> \/ c = <<"c","o","n","f","e","r","e","n","c","e","p","a","p","e","r">> \/ c \in document_types

\* lines 382-393
PublicationInfoCall(crawler_record) ==
    LET _pub_info == Get(crawler_record, "publication_info", <<(<<>>)>>)[1]
    IN  Call("add_publication_info",
             [year |-> GetOrNone(_pub_info, "year"),
              artid |-> GetOrNone(_pub_info, "artid"),
              page_end |-> GetOrNone(_pub_info, "page_end"),
              page_start |-> GetOrNone(_pub_info, "page_start"),
              journal_issue |-> GetOrNone(_pub_info, "journal_issue"),
              journal_title |-> GetOrNone(_pub_info, "journal_title"),
              journal_volume |-> GetOrNone(_pub_info, "journal_volume"),
              pubinfo_freetext |-> GetOrNone(_pub_info, "pubinfo_freetext"),
              material |-> GetOrNone(_pub_info, "pubinfo_material")])

\* lines 395-399
ReportNumberCalls(crawler_record) ==
    LET report_numbers == Elements(crawler_record, "report_numbers")
    IN  [i \in 1..Len(report_numbers) |->
            Call("add_report_number",
                 [report_number |-> GetOrNone(report_numbers[i], "value"),
                  source |-> GetOrNone(report_numbers[i], "source")])]

(***************************************************************************)
(* What the builder holds after a sequence of calls (inspire_schemas, not  *)
(* part of this repository): add_document_type appends its argument to     *)
(* document_type, set_core stores its argument under core.                 *)
(***************************************************************************)
BuilderDocumentType(cs) ==
    LET added == SelectSeq(cs, LAMBDA c : c.op = "add_document_type")
    IN  [i \in 1..Len(added) |-> added[i].args]

BuilderCore(cs) ==
    LET set == {i \in 1..Len(cs) : cs[i].op = "set_core"}
    IN  IF set = {} THEN [set |-> FALSE, value |-> FALSE]
        ELSE [set |-> TRUE,
              value |-> cs[CHOOSE i \in set : \A j \in set : j <= i].args]

(***************************************************************************)
(* Inputs: the items item_to_hep is called with                            *)
(***************************************************************************)
SeqsUpTo(S, n) == UNION {[1..k -> S] : k \in 0..n}

TextValues == {<<>>, <<"x">>}

YearValues == {<<>>, <<"1","9","9","9">>, <<" ","7"," ">>, <<"-","3">>, <<"x">>, <<"1","9","a">>}

RawTags ==
    {<<" ","C","O","R","E"," ">>, <<"n","o","n","c","o","r","e">>, <<"P","u","b","l","i","s","h","e","d">>, <<"c","i","t","e","a","b","l","e">>, <<"w","i","t","h","d","r","a","w","n">>,
     <<"a","r","X","i","v">>, <<"r","e","v","i","e","w">>, <<"C","D","S">>, <<"b","o","o","k","c","h","a","p","t","e","r">>, <<"C","o","n","f","e","r","e","n","c","e","P","a","p","e","r">>,
     <<"t","h","e","s","i","s">>, <<"a","r","t","i","c","l","e">>}

StaleAcquisitionSource ==
    [source |-> "old", method |-> "oai", datetime |-> "then",
     submission_number |-> "stale"]

TextKeys ==
    <<"title", "subtitle", "abstract", "date_published", "copyright_holder",
      "copyright_year", "copyright_statement", "copyright_material",
      "pubinfo_freetext", "journal_volume", "journal_title", "journal_issue",
      "journal_fpage", "journal_lpage", "journal_artid", "journal_doctype",
      "pubinfo_material">>

HarvestKeys ==
    TextKeys \o
    <<"journal_year", "dois", "related_article_doi", "authors",
      "arxiv_eprints", "public_notes", "license", "collaborations",
      "report_numbers", "preprint_date", "page_nr", "acquisition_source">>

ValuesOf(k) ==
    CASE k = "journal_year" -> YearValues
      [] k = "dois" -> {<<>>, <<[value |-> <<"d","1">>, material |-> <<"m">>]>>}
      [] k = "related_article_doi" -> {<<>>, <<[value |-> <<"d","2">>]>>}
      [] k = "authors" ->
            {<<[full_name |-> <<"A">>,
                affiliations |-> <<[value |-> <<"U">>], [value |-> <<>>], <<>>>>]>>}
      [] k = "arxiv_eprints" -> {<<[value |-> <<"1">>, categories |-> <<<<"h">>>>]>>}
      [] k = "public_notes" -> {<<[value |-> <<"n">>]>>}
      [] k = "license" -> {<<[url |-> <<"u">>]>>}
      [] k = "collaborations" -> {<<[value |-> <<"c">>]>>}
      [] k = "report_numbers" ->
            {<<[value |-> <<"r","1">>, source |-> <<"s">>], [value |-> <<"r","2">>]>>}
      [] k = "preprint_date" -> {<<"2","0","1","7">>}
      [] k = "page_nr" -> {<<>>, <<<<"1","2">>>>, <<<<"x","i","i">>>>}
      [] k = "acquisition_source" -> {StaleAcquisitionSource}
      [] OTHER -> TextValues

\* the dicts with at most n of the given keys
RECURSIVE DictsOver(_, _)
DictsOver(keys, n) ==
    IF keys = <<>> \/ n = 0 THEN {<<>>}
    ELSE DictsOver(Tail(keys), n)
         \cup {(Head(keys) :> v) @@ d :
                 v \in ValuesOf(Head(keys)), d \in DictsOver(Tail(keys), n - 1)}

FieldRecords == DictsOver(HarvestKeys, MaxKeys)

CollectionRecords ==
    {("collections" :> cs) :
        cs \in SeqsUpTo({[primary |-> t] : t \in RawTags}, MaxCollections)}

HarvestRecords == FieldRecords \cup CollectionRecords

DeclaredPaths == {<<"/","t","/","a">>, <<"/","t","/","b">>, <<"a">>, <<"/","t","/">>}

RecordFiles ==
    {[name |-> <<"a">>, path |-> <<"/","s","/","a">>], [name |-> <<"a">>, path |-> <<"/","r","/","a">>],
     [name |-> <<"b">>, path |-> <<"/","s","/","b">>]}

HepRecords ==
    {base @@ fft :
        base \in {<<>>, ("acquisition_source" :> StaleAcquisitionSource)},
        fft \in {<<>>} \cup
                {("_fft" :> f) : f \in SeqsUpTo({[path |-> p] : p \in DeclaredPaths},
                                                 MaxFft)}}

Items ==
    {[record |-> r, record_format |-> "hep", record_files |-> f] :
        r \in HepRecords, f \in SeqsUpTo(RecordFiles, MaxFiles)}
    \cup {[record |-> r, record_format |-> "hepcrawl", record_files |-> <<>>] :
            r \in HarvestRecords}
    \cup {[record |-> r, record_format |-> fmt, record_files |-> <<>>] :
            r \in DictsOver(<<"title", "acquisition_source">>, 1),
            fmt \in {"harvest", "HEP", ""}}

Environs == {<<>>, ("SCRAPY_JOB" :> "job-7")}

Init ==
    /\ \E item \in Items :
        /\ record = item.record
        /\ record0 = item.record
        /\ record_format = item.record_format
        /\ record_files = item.record_files
    /\ source = "arXiv"
    /\ environ \in Environs
    /\ pc = "start"
    /\ error = "none"
    /\ result = [kind |-> "none"]
    /\ calls = <<>>
    /\ idx = 1
    /\ added_doc_type = FALSE
    /\ validated = "none"
    /\ normalized = 0

(***************************************************************************)
(* item_to_hep                                                             *)
(***************************************************************************)
EnvironGetDefaultOnly(env, k, default) == default

\* os.environ.get(k, default)
environ_get(env, k, default) == IF k \in DOMAIN env THEN env[k] ELSE default

\* lines 164-173: builder.record['acquisition_source'] after the call
AcquisitionSource(src, env) ==
    [source |-> src, method |-> "hepcrawl", datetime |-> "now",
     submission_number |-> environ_get(env, "SCRAPY_JOB", "")]

\* lines 164-175
Stamp ==
    /\ pc = "start"
    /\ record' = Put(record, "acquisition_source", AcquisitionSource(source, environ))
    /\ pc' = "branch"
    /\ UNCHANGED <<record_format, record_files, source, environ, error, result,
                   calls, idx, added_doc_type, validated, normalized, record0>>

BranchElseHepcrawl(fmt) == IF fmt = "hep" THEN "hep_to_hep" ELSE "hepcrawl_to_hep"

\* lines 177-191: the if / elif / else on item.record_format
Branch(fmt) ==
    IF fmt = "hep" THEN "hep_to_hep"
    ELSE IF fmt = "hepcrawl" THEN "hepcrawl_to_hep"
    ELSE "UnknownItemFormat"

\* lines 177-181 and 194-209
HepToHep ==
    /\ pc = "branch"
    /\ Branch(record_format) = "hep_to_hep"
    /\ LET r == hep_to_hep(record, record_files)
       IN  /\ record' = r.record
           /\ error' = r.error
           /\ pc' = IF r.error = "none" THEN "returned" ELSE "raised"
           /\ result' = IF r.error = "none"
                        THEN [kind |-> "hep_record", record |-> r.record]
                        ELSE result
    /\ UNCHANGED <<record_format, record_files, source, environ, calls, idx,
                   added_doc_type, validated, normalized, record0>>

\* a normalizer that extends the four lists it finds instead of replacing them
RunNormalizerAppending ==
    LET n == _normalize_hepcrawl_record(record, source)
        Grown(k) == Get(record, k, <<>>) \o n.item[k]
    IN  /\ record' = IF n.error = "none"
                     THEN [x \in DOMAIN n.item |->
                             IF x \in {"titles", "abstracts", "imprints", "copyright"}
                             THEN Grown(x) ELSE n.item[x]]
                     ELSE n.item
        /\ error' = n.error
        /\ pc' = IF n.error = "none" THEN "normalized" ELSE "raised"
        /\ normalized' = IF n.error = "none" THEN normalized + 1 ELSE normalized
        /\ UNCHANGED <<record_format, record_files, source, environ, result,
                       calls, idx, added_doc_type, validated, record0>>

\* one run of _normalize_hepcrawl_record on item.record
RunNormalizer ==
    LET n == _normalize_hepcrawl_record(record, source)
    IN  /\ record' = n.item
        /\ error' = n.error
        /\ pc' = IF n.error = "none" THEN "normalized" ELSE "raised"
        /\ normalized' = IF n.error = "none" THEN normalized + 1 ELSE normalized
        /\ UNCHANGED <<record_format, record_files, source, environ, result,
                       calls, idx, added_doc_type, validated, record0>>

\* lines 182-186
Normalize ==
    /\ pc = "branch"
    /\ Branch(record_format) = "hepcrawl_to_hep"
    /\ RunNormalizer

\* lines 84-143 applied to a record that was normalized before
NormalizeAgain ==
    /\ pc = "normalized"
    /\ normalized < MaxNormalize
    /\ RunNormalizer

\* lines 188-191
RaiseUnknownItemFormat ==
    /\ pc = "branch"
    /\ Branch(record_format) = "UnknownItemFormat"
    /\ pc' = "raised"
    /\ error' = "UnknownItemFormat"
    /\ UNCHANGED <<record, record_format, record_files, source, environ, result,
                   calls, idx, added_doc_type, validated, normalized, record0>>

(***************************************************************************)
(* hepcrawl_to_hep(dict(record)), line 187                                 *)
(***************************************************************************)
\* lines 234-348: a new builder, the field loops, the page count
BuildFields ==
    /\ pc = "normalized"
    /\ calls' = FieldCalls(record)
    /\ idx' = 1
    /\ added_doc_type' = FALSE
    /\ pc' = "collections"
    /\ UNCHANGED <<record, record_format, record_files, source, environ, error,
                   result, validated, normalized, record0>>

Collections == Get(record, "collections", <<>>)

\* one iteration that passes over noncore
ScanCollectionIgnoringNoncore ==
    /\ pc = "collections"
    /\ idx <= Len(Collections)
    /\ LET c == NormalizedTag(Collections[idx])
       IN  /\ calls' = calls \o (IF c = <<"n","o","n","c","o","r","e">> THEN <<>> ELSE CollectionCalls(c))
           /\ added_doc_type' = (added_doc_type \/ SetsAddedDocType(c))
    /\ idx' = idx + 1
    /\ UNCHANGED <<record, record_format, record_files, source, environ, pc, error,
                   result, validated, normalized, record0>>

\* lines 350-377: one iteration of the loop
ScanCollection ==
    /\ pc = "collections"
    /\ idx <= Len(Collections)
    /\ LET c == NormalizedTag(Collections[idx])
       IN  /\ calls' = calls \o CollectionCalls(c)
           /\ added_doc_type' = (added_doc_type \/ SetsAddedDocType(c))
    /\ idx' = idx + 1
    /\ UNCHANGED <<record, record_format, record_files, source, environ, pc, error,
                   result, validated, normalized, record0>>

FallbackAlways(added) == <<Call("add_document_type", <<"a","r","t","i","c","l","e">>)>>

\* lines 379-380
FallbackCalls(added) ==
    IF ~added THEN <<Call("add_document_type", <<"a","r","t","i","c","l","e">>)>> ELSE <<>>

\* lines 379-399: the loop is over; fallback, publication info, report numbers
FinishFields ==
    /\ pc = "collections"
    /\ idx > Len(Collections)
    /\ calls' = calls \o FallbackCalls(added_doc_type)
                      \o <<PublicationInfoCall(record)>>
                      \o ReportNumberCalls(record)
    /\ pc' = "validate"
    /\ UNCHANGED <<record, record_format, record_files, source, environ, error,
                   result, idx, added_doc_type, validated, normalized, record0>>

BuilderRecord(cs) ==
    [kind |-> "builder_record",
     document_type |-> BuilderDocumentType(cs),
     core |-> BuilderCore(cs)]

\* a validation whose failure is passed over
ValidateSwallowing ==
    /\ pc = "validate"
    /\ \E ok \in BOOLEAN :
        /\ validated' = IF ok THEN "ok" ELSE "failed"
        /\ calls' = Append(calls, Call("validate_record", None))
        /\ pc' = "returned"
        /\ result' = BuilderRecord(calls')
        /\ UNCHANGED error
    /\ UNCHANGED <<record, record_format, record_files, source, environ, idx,
                   added_doc_type, normalized, record0>>

\* lines 401-403: validate_record() raises or not; nothing catches it
Validate ==
    /\ pc = "validate"
    /\ \E ok \in BOOLEAN :
        /\ validated' = IF ok THEN "ok" ELSE "failed"
        /\ calls' = Append(calls, Call("validate_record", None))
        /\ pc' = IF ok THEN "returned" ELSE "raised"
        /\ result' = IF ok THEN BuilderRecord(calls') ELSE result
        /\ error' = IF ok THEN error ELSE "ValidationError"
    /\ UNCHANGED <<record, record_format, record_files, source, environ, idx,
                   added_doc_type, normalized, record0>>

Next ==
    \/ Stamp
    \/ HepToHep
    \/ Normalize
    \/ NormalizeAgain
    \/ RaiseUnknownItemFormat
    \/ BuildFields
    \/ ScanCollection
    \/ FinishFields
    \/ Validate

Spec == Init /\ [][Next]_vars

(***************************************************************************)
(* Properties                                                              *)
(***************************************************************************)
\* hepcrawl_to_hep has been entered
InBuilder ==
    \/ pc \in {"collections", "validate"}
    \/ result.kind = "builder_record"
    \/ error = "ValidationError"

\* hepcrawl_to_hep is past its collections loop and the fallback after it
PastFallback ==
    \/ pc = "validate"
    \/ result.kind = "builder_record"
    \/ error = "ValidationError"

TriggerFields ==
    {"pubinfo_freetext", "journal_volume", "journal_title", "journal_year",
     "journal_issue", "journal_fpage", "journal_lpage", "journal_artid",
     "journal_doctype"}

AnyTriggerTruthy(r) == \E k \in TriggerFields : k \in DOMAIN r /\ r[k] # <<>>

TagAt(i) == lower(strip(Collections[i]["primary"]))

DocumentTypeTags ==
    {<<"b","o","o","k","c","h","a","p","t","e","r">>, <<"c","o","n","f","e","r","e","n","c","e","p","a","p","e","r">>, <<"b","o","o","k">>, <<"n","o","t","e">>, <<"r","e","p","o","r","t">>,
     <<"p","r","o","c","e","e","d","i","n","g","s">>, <<"t","h","e","s","i","s">>}

CountOp(op) == Cardinality({i \in 1..Len(calls) : calls[i].op = op})

\* C1: an item whose record_format is neither 'hep' nor 'hepcrawl' never
\* enters a conversion path and never gets a record returned: from the branch
\* the raise of UnknownItemFormat is the step it takes and the only way it
\* ends; an item with one of the two known formats never ends with
\* UnknownItemFormat.
C1_UnknownFormatRaises ==
    IF record_format \in {"hep", "hepcrawl"}
    THEN error # "UnknownItemFormat"
    ELSE /\ pc \in {"start", "branch", "raised"}
         /\ pc = "branch" => ENABLED RaiseUnknownItemFormat
         /\ pc = "raised" => error = "UnknownItemFormat"
         /\ result.kind = "none"
         /\ normalized = 0
         /\ calls = <<>>

C1_Witness ==
    /\ record_format = "harvest"
    /\ pc = "raised"
    /\ error = "UnknownItemFormat"
    /\ result.kind = "none"

\* the _fft returned by hep_to_hep holds, in order, exactly the declared
\* entries whose basename is the name of a retrieved file, each with the path
\* of a retrieved file of that name
FftAllResolved ==
    LET names == {record_files[i].name : i \in 1..Len(record_files)}
        kept == SelectSeq(record0["_fft"], LAMBDA e : basename(e["path"]) \in names)
        out == result.record["_fft"]
    IN  /\ Len(out) = Len(kept)
        /\ \A j \in 1..Len(out) :
            \E i \in 1..Len(record_files) :
                /\ record_files[i].name = basename(kept[j]["path"])
                /\ out[j]["path"] = record_files[i].path

HepReturnedWithFft ==
    /\ pc = "returned"
    /\ result.kind = "hep_record"
    /\ Has(record0, "_fft")

\* C2 as stated: for every list of retrieved files, the empty one included,
\* every entry left in _fft after hep_to_hep carries the resolved path of a
\* retrieved file named like the basename of its declared path, and entries
\* matching no retrieved file are gone.
C2_AsStated == HepReturnedWithFft => FftAllResolved

\* C2 amended: with a non-empty list of retrieved files, every entry left in
\* _fft after hep_to_hep carries the resolved path of a retrieved file named
\* like the basename of its declared path and unmatched entries are gone; with
\* the empty list hep_to_hep returns _fft as it was declared.
C2_Amended ==
    HepReturnedWithFft =>
        IF record_files # <<>>
        THEN FftAllResolved
        ELSE result.record["_fft"] = record0["_fft"]

C2_Witness ==
    /\ HepReturnedWithFft
    /\ record_files # <<>>
    /\ Len(result.record["_fft"]) = 1
    /\ Len(record0["_fft"]) = 2
    /\ result.record["_fft"][1]["path"] # record0["_fft"][1]["path"]

\* C3: once the normalizer has completed on a harvest record,
\* publication_info is in the record, as a list of one entry, exactly when
\* one of the nine trigger fields of the harvest record was truthy; with none
\* truthy the key is absent.
C3_PublicationInfoIffTrigger ==
    normalized >= 1 =>
        /\ Has(record, "publication_info") <=> AnyTriggerTruthy(record0)
        /\ Has(record, "publication_info") => Len(record["publication_info"]) = 1

C3_Witness ==
    /\ normalized = 1
    /\ Has(record, "publication_info")
    /\ Truthy(record0, "journal_doctype")
    /\ Cardinality(DOMAIN record0) = 1

\* C4: when publication info is constructed and journal_year is absent or
\* does not parse as an integer, the normalizer raises no error and completes
\* with a publication_info entry without a year key.
C4_UnparseableYearOmitted ==
    (/\ record_format = "hepcrawl"
     /\ pc \notin {"start", "branch"}
     /\ AnyTriggerTruthy(record0)
     /\ ~Has(record0, "journal_year") \/ ~int(record0["journal_year"]).ok
     /\ error # "KeyError")
    => /\ error # "ValueError"
       /\ normalized >= 1
       /\ Has(record, "publication_info")
       /\ ~Has(record["publication_info"][1], "year")

\* C5: while the collections are being scanned document_type holds no
\* 'article'; once the scan is over document_type has at least one entry, and
\* 'article' is in it (once, and as its only entry) exactly when no scanned
\* tag was one of the seven document-type tags.
C5_ArticleFallback ==
    LET dt == BuilderDocumentType(calls)
        articles == {i \in 1..Len(dt) : dt[i] = <<"a","r","t","i","c","l","e">>}
        tagged == \E i \in 1..Len(Collections) : TagAt(i) \in DocumentTypeTags
    IN  /\ ~PastFallback => articles = {}
        /\ PastFallback =>
            /\ Len(dt) >= 1
            /\ articles # {} <=> ~tagged
            /\ articles # {} => dt = <<<<"a","r","t","i","c","l","e">>>>
        /\ result.kind = "builder_record" => result.document_type = dt

C5_Witness ==
    /\ result.kind = "builder_record"
    /\ result.document_type = <<<<"a","r","t","i","c","l","e">>>>
    /\ Len(Collections) = MaxCollections

\* C6: at every point of the collections loop and after it, the builder got
\* one set_core call per core / noncore tag scanned so far, and its core flag
\* is the one of the last such tag: true for core, false for noncore.
C6_LastCoreTagWins ==
    InBuilder =>
        LET scanned == {i \in 1..(idx - 1) : TagAt(i) \in {<<"c","o","r","e">>, <<"n","o","n","c","o","r","e">>}}
            last == CHOOSE i \in scanned : \A j \in scanned : j <= i
        IN  /\ CountOp("set_core") = Cardinality(scanned)
            /\ IF scanned = {}
               THEN ~BuilderCore(calls).set
               ELSE BuilderCore(calls) = [set |-> TRUE, value |-> TagAt(last) = <<"c","o","r","e">>]

C6_Witness ==
    /\ result.kind = "builder_record"
    /\ Len(Collections) >= 2
    /\ TagAt(1) = <<"c","o","r","e">>
    /\ TagAt(2) = <<"n","o","n","c","o","r","e">>
    /\ result.core = [set |-> TRUE, value |-> FALSE]

\* C7: whenever the normalizer has completed on a record, for the first time
\* or again on its own output, titles, abstracts, imprints and copyright are
\* each a list of exactly one entry.
C7_SingleEntryLists ==
    normalized >= 1 =>
        \A k \in {"titles", "abstracts", "imprints", "copyright"} :
            Has(record, k) /\ Len(record[k]) = 1

C7_Witness ==
    /\ normalized >= 2
    /\ Has(record0, "title")
    /\ Len(record["titles"]) = 1

\* C8: from the branch on record_format onwards, whichever way it goes, the
\* record carries an acquisition_source whose submission_number is the value
\* of SCRAPY_JOB, or the empty string when SCRAPY_JOB is not set.
C8_StampedBeforeBranch ==
    pc # "start" =>
        /\ Has(record, "acquisition_source")
        /\ record["acquisition_source"]["submission_number"] =
               (IF "SCRAPY_JOB" \in DOMAIN environ THEN environ["SCRAPY_JOB"] ELSE "")
        /\ record["acquisition_source"]["source"] = source

C8_Witness ==
    /\ pc = "branch"
    /\ Has(record0, "acquisition_source")
    /\ "SCRAPY_JOB" \in DOMAIN environ
    /\ record["acquisition_source"]["submission_number"] = "job-7"

\* C9: validate_record is the last call made on the builder, after the
\* document-type fallback, add_publication_info and every add_report_number;
\* a builder record is returned only after a validation that succeeded, and a
\* failed validation ends the call with the validation error and no record.
C9_ValidationLast ==
    /\ \A i \in 1..Len(calls) : calls[i].op = "validate_record" => i = Len(calls)
    /\ validated # "none" =>
        /\ calls[Len(calls)].op = "validate_record"
        /\ CountOp("add_document_type") >= 1
        /\ CountOp("add_publication_info") = 1
        /\ CountOp("add_report_number") = Len(Get(record, "report_numbers", <<>>))
    /\ result.kind = "builder_record" => validated = "ok"
    /\ validated = "ok" => pc = "returned" /\ result.kind = "builder_record"
    /\ validated = "failed" =>
        /\ pc = "raised"
        /\ error = "ValidationError"
        /\ result.kind = "none"

C9_Witness ==
    /\ validated = "failed"
    /\ pc = "raised"
    /\ error = "ValidationError"
    /\ Has(record, "report_numbers")

\* C10: on a record with related_article_doi, with or without dois, the
\* normalizer completes without error, dois then holds its previous elements
\* followed by those of related_article_doi, and related_article_doi is gone;
\* on a record without related_article_doi dois is left as it was.
C10_RelatedDoisMerged ==
    (/\ record_format = "hepcrawl"
     /\ pc \notin {"start", "branch"}
     /\ error # "ValueError")
    => IF Has(record0, "related_article_doi")
       THEN /\ error # "KeyError"
            /\ normalized >= 1
            /\ ~Has(record, "related_article_doi")
            /\ Has(record, "dois")
            /\ record["dois"] = Get(record0, "dois", <<>>) \o record0["related_article_doi"]
       ELSE /\ Has(record, "dois") <=> Has(record0, "dois")
            /\ Has(record, "dois") => record["dois"] = record0["dois"]

====
